---- MODULE Spec2Model ----
(***************************************************************************)
(* devcontainer-init: the artifact generators (domain policy resolver,     *)
(* editor manifest) as operators over a configuration value, and the       *)
(* compiled firewall script as a step machine over packet-filter and       *)
(* IP-set state.                                                           *)
(***************************************************************************)
EXTENDS Integers, Sequences, FiniteSets, TLC

VARIABLES
    config,      \* the DevcontainerConfig handed to the generators
    done,        \* which generators have returned
    domains,     \* result of getFirewallDomains(config)
    manifest,    \* result of generateDevcontainerJson(config)
    recipe,      \* result of generateDockerfile(config)
    script,      \* result of generateFirewallScript(config), line by line
    files,       \* what generateDevcontainer has written into .devcontainer
    wpc,         \* the next file generateDevcontainer writes
    refs,        \* which object each array- or object-valued field holds
    wz,          \* the wizard: position, exit status, directories
    \* --- execution of the compiled firewall script in the container ---
    pc,          \* position in the script
    status,      \* exit status once pc is "done" or "exited"
    shv,         \* the script's shell variables
    out,         \* lines echoed by the script
    policy,      \* filter table: default policy of each built-in chain
    filter,      \* filter table: rules and custom chains
    nat,         \* nat table: rules and custom chains
    mangle,      \* mangle table: rules and custom chains
    ipset,       \* the allowed-domains IP set
    env,         \* what curl, jq/aggregate, dig and ip route answer
    run,         \* 1 for the first execution, 2 for a re-execution
    start,       \* packet-filter and IP-set state when this execution began
    first        \* packet-filter and IP-set state the first execution left

genvars == <<config, done, domains, manifest, recipe, script, files, wpc,
             refs, wz>>

kernelvars == <<policy, filter, nat, mangle, ipset>>

fwvars == <<pc, status, shv, out, policy, filter, nat, mangle, ipset, env,
            run, start, first>>

vars == <<config, done, domains, manifest, recipe, script, files, wpc, refs, wz, pc,
          status, shv, out, policy, filter, nat, mangle, ipset, env, run,
          start, first>>

----------------------------------------------------------------------------
(* Bounds of the model *)

MaxPorts == 2

\* How many domains may be unresolvable in one execution environment.
MaxDown == 1

\* Longest text entered at the ports prompt.
MaxText == 3

----------------------------------------------------------------------------
(* types.ts *)

Runtimes == {"node-pnpm", "node-bun", "python"}

ClaudeModes == {"none", "local", "fresh"}

\* The characters of each runtime name, for String.prototype.startsWith.
Chars(s) ==
    CASE s = "node-pnpm" -> <<"n", "o", "d", "e", "-", "p", "n", "p", "m">>
      [] s = "node-bun"  -> <<"n", "o", "d", "e", "-", "b", "u", "n">>
      [] s = "python"    -> <<"p", "y", "t", "h", "o", "n">>
      [] s = "node"      -> <<"n", "o", "d", "e">>

StartsWith(s, prefix) ==
    /\ Len(Chars(s)) >= Len(Chars(prefix))
    /\ SubSeq(Chars(s), 1, Len(Chars(prefix))) = Chars(prefix)

Range(seq) == {seq[i] : i \in DOMAIN seq}

NoDuplicates(seq) ==
    \A i, j \in DOMAIN seq : seq[i] = seq[j] => i = j

PortPool == {3000, 5432, 8000}

PortLists == UNION {[1..n -> PortPool] : n \in 0..MaxPorts}

VersionsOf(runtime) ==
    IF runtime = "python" THEN {"3.12"} ELSE {"20"}

ExtensionsOf(runtime) ==
    IF runtime = "python"
    THEN <<"ms-python.python">>
    ELSE <<"dbaeumer.vscode-eslint", "esbenp.prettier-vscode">>

Configs ==
    {[containerName  |-> IF r = "python" THEN "Python Dev" ELSE "Node Dev",
      runtime        |-> r,
      runtimeVersion |-> v,
      timezone       |-> "Europe/Paris",
      ports          |-> p,
      enableFirewall |-> f,
      claudeMode     |-> m,
      extensions     |-> ExtensionsOf(r)] :
        r \in Runtimes, v \in {"20", "3.12"}, p \in PortLists,
        f \in BOOLEAN, m \in ClaudeModes}

----------------------------------------------------------------------------
(* generators/firewall.ts: getFirewallDomains *)

\* A resolver that forgets the web host.
GitHubDomains_OnlyApi == <<"api.github.com">>

GitHubDomains == <<"api.github.com", "github.com">>

NpmDomains == <<"registry.npmjs.org">>

PyPiDomains == <<"pypi.org", "files.pythonhosted.org">>

AnthropicDomains ==
    <<"api.anthropic.com", "sentry.io", "statsig.anthropic.com", "statsig.com">>

NodeRule(c) == StartsWith(c.runtime, "node")

\* A python test that also catches the bun variant.
PythonRule_NotPnpm(c) == c.runtime # "node-pnpm"

PythonRule(c) == c.runtime = "python"

\* An assistant test that only recognises the local mode.
ClaudeRule_OnlyLocal(c) == c.claudeMode = "local"

ClaudeRule(c) == c.claudeMode # "none"

getFirewallDomains(c) ==
    LET d0 == GitHubDomains
        d1 == IF NodeRule(c) THEN d0 \o NpmDomains ELSE d0
        d2 == IF PythonRule(c) THEN d1 \o PyPiDomains ELSE d1
        d3 == IF ClaudeRule(c) THEN d2 \o AnthropicDomains ELSE d2
    IN  d3

----------------------------------------------------------------------------
(* generators/devcontainer-json.ts: generateDevcontainerJson *)

UserOf(c) == IF c.runtime = "python" THEN "vscode" ELSE "node"

NameArg == "--name=${localWorkspaceFolderBasename}-devcontainer"

HistoryMount ==
    "source=devcontainer-bashhistory-${devcontainerId},target=/commandhistory,type=volume"

\* push in place of unshift.
RunArgs_Pushed(c) ==
    IF c.enableFirewall
    THEN <<NameArg>> \o <<"--cap-add=NET_ADMIN", "--cap-add=NET_RAW">>
    ELSE <<NameArg>>

RunArgs(c) ==
    IF c.enableFirewall
    THEN <<"--cap-add=NET_ADMIN", "--cap-add=NET_RAW">> \o <<NameArg>>
    ELSE <<NameArg>>

Mounts_AnyAssistant(c) ==
    IF c.claudeMode # "none"
    THEN <<HistoryMount>> \o
         <<"source=${localEnv:HOME}/.claude,target=/home/" \o UserOf(c)
               \o "/.claude,type=bind",
           "source=${localEnv:HOME}/.claude.json,target=/home/" \o UserOf(c)
               \o "/.claude.json,type=bind">>
    ELSE <<HistoryMount>>

Mounts(c) ==
    IF c.claudeMode = "local"
    THEN <<HistoryMount>> \o
         <<"source=${localEnv:HOME}/.claude,target=/home/" \o UserOf(c)
               \o "/.claude,type=bind",
           "source=${localEnv:HOME}/.claude.json,target=/home/" \o UserOf(c)
               \o "/.claude.json,type=bind">>
    ELSE <<HistoryMount>>

ContainerEnv(c) ==
    LET e0 == [k \in {} |-> ""]
        e1 == IF c.claudeMode = "local"
              THEN ("CLAUDE_CONFIG_DIR" :> ("/home/" \o UserOf(c) \o "/.claude")) @@ e0
              ELSE e0
        e2 == IF StartsWith(c.runtime, "node")
              THEN ("NODE_OPTIONS" :> "--max-old-space-size=4096") @@ e1
              ELSE e1
    IN  e2

Settings(c) ==
    LET s0 == [formatOnSave |-> "true", defaultProfile |-> "zsh"]
        s1 == IF StartsWith(c.runtime, "node")
              THEN ("defaultFormatter" :> "esbenp.prettier-vscode")
                   @@ ("codeActionsOnSave" :> "source.fixAll.eslint=explicit")
                   @@ s0
              ELSE s0
        s2 == IF c.runtime = "python"
              THEN ("defaultFormatter" :> "ms-python.black-formatter")
                   @@ ("defaultInterpreterPath" :> "/usr/local/bin/python")
                   @@ s1
              ELSE s1
    IN  s2

\* The label the forEach callback gives the port at 0-based position index.
PortLabel(port, index) ==
    IF index = 0 THEN "Application" ELSE "Port " \o ToString(port)

\* portsAttributes after the forEach has visited the first n ports: each
\* visit assigns the property keyed by port.toString().
RECURSIVE PortsAttributes(_, _)
PortsAttributes(ports, n) ==
    IF n = 0 THEN [k \in {} |-> [label |-> "", onAutoForward |-> ""]]
    ELSE LET prev  == PortsAttributes(ports, n - 1)
             key   == ToString(ports[n])
             entry == [label |-> PortLabel(ports[n], n - 1),
                       onAutoForward |-> "notify"]
         IN  [k \in DOMAIN prev \cup {key} |->
                 IF k = key THEN entry ELSE prev[k]]

\* The ports with repeated numbers dropped (first occurrence kept).
RECURSIVE Dedup(_)
Dedup(ports) ==
    IF ports = <<>> THEN <<>>
    ELSE LET init == Dedup(SubSeq(ports, 1, Len(ports) - 1))
             last == ports[Len(ports)]
         IN  IF \E i \in DOMAIN init : init[i] = last
             THEN init ELSE Append(init, last)

ForwardPorts_Dedup(c) == Dedup(c.ports)

ForwardPorts(c) == c.ports

generateDevcontainerJson(c) ==
    LET json == [name            |-> "${localWorkspaceFolderBasename}",
                 buildDockerfile |-> "Dockerfile",
                 buildArgTZ      |-> "${localEnv:TZ:" \o c.timezone \o "}",
                 runArgs         |-> RunArgs(c),
                 extensions      |-> c.extensions,
                 settings        |-> Settings(c),
                 remoteUser      |-> UserOf(c),
                 mounts          |-> Mounts(c),
                 containerEnv    |-> ContainerEnv(c),
                 workspaceMount  |->
                     "source=${localWorkspaceFolder},target=/${localWorkspaceFolderBasename},type=bind,consistency=delegated",
                 workspaceFolder |-> "/${localWorkspaceFolderBasename}",
                 forwardPorts    |-> ForwardPorts(c),
                 portsAttributes |-> PortsAttributes(c.ports, Len(c.ports))]
    IN  IF c.enableFirewall
        THEN ("postCreateCommand" :> "sudo /usr/local/bin/init-firewall.sh") @@ json
        ELSE json

\* index.ts carries its own copy of the generator, which differs from the
\* module in the value of `name`.
IndexGenerateDevcontainerJson(c) ==
    [generateDevcontainerJson(c) EXCEPT !.name = c.containerName]

----------------------------------------------------------------------------
(* Object identity. An array or object is named by the place that created  *)
(* it; refs maps each array- or object-valued field to the object it holds. *)

ConfigRefs ==
    ("config.ports" :> "config.ports")
        @@ ("config.extensions" :> "config.extensions")

\* The fields of the object literal of generateDevcontainerJson.
ManifestRefs(r) ==
    ("manifest.runArgs" :> "part_000:14")
        @@ ("manifest.extensions" :> r["config.extensions"])
        @@ ("manifest.settings" :> "part_000:18")
        @@ ("manifest.mounts" :> "part_000:25")
        @@ ("manifest.containerEnv" :> "part_000:26")
        @@ ("manifest.forwardPorts" :> r["config.ports"])
        @@ ("manifest.portsAttributes" :> "part_000:30")

\* The objects generateDevcontainerJson changes in place (unshift, push and
\* property assignment).
MutatedByManifest(r) ==
    {r["manifest.runArgs"], r["manifest.mounts"], r["manifest.containerEnv"],
     r["manifest.settings"], r["manifest.portsAttributes"]}

----------------------------------------------------------------------------
(* index.ts: main, the ports prompt. The entered text is a sequence of     *)
(* characters.                                                            *)

Alphabet == {"3", "0", "-", ",", " "}

PortsInputs == UNION {[1..n -> Alphabet] : n \in 0..MaxText}

DigitChars == {"0", "1", "2", "3", "4", "5", "6", "7", "8", "9"}

DigitValue(ch) ==
    CASE ch = "0" -> 0 [] ch = "1" -> 1 [] ch = "2" -> 2 [] ch = "3" -> 3
      [] ch = "4" -> 4 [] ch = "5" -> 5 [] ch = "6" -> 6 [] ch = "7" -> 7
      [] ch = "8" -> 8 [] ch = "9" -> 9

\* String.prototype.split with a one-character separator.
RECURSIVE Split(_, _)
Split(text, sep) ==
    IF \A k \in DOMAIN text : text[k] # sep
    THEN <<text>>
    ELSE LET k == CHOOSE i \in DOMAIN text :
                      text[i] = sep /\ \A j \in 1..(i - 1) : text[j] # sep
         IN  <<SubSeq(text, 1, k - 1)>> \o Split(SubSeq(text, k + 1, Len(text)), sep)

\* String.prototype.trim.
RECURSIVE Trim(_)
Trim(s) ==
    IF s = <<>> THEN s
    ELSE IF s[1] = " " THEN Trim(Tail(s))
    ELSE IF s[Len(s)] = " " THEN Trim(SubSeq(s, 1, Len(s) - 1))
    ELSE s

RECURSIVE LeadingDigits(_)
LeadingDigits(s) ==
    IF s = <<>> \/ s[1] \notin DigitChars THEN <<>>
    ELSE <<s[1]>> \o LeadingDigits(Tail(s))

RECURSIVE DigitsValue(_)
DigitsValue(ds) ==
    IF ds = <<>> THEN 0
    ELSE DigitsValue(SubSeq(ds, 1, Len(ds) - 1)) * 10 + DigitValue(ds[Len(ds)])

\* parseInt(s, 10): an optional sign, then the longest run of digits; NaN
\* when there is no digit.
parseInt(s) ==
    LET signed == s # <<>> /\ s[1] \in {"-", "+"}
        body   == IF signed THEN Tail(s) ELSE s
        digits == LeadingDigits(body)
        value  == DigitsValue(digits)
    IN  [nan |-> digits = <<>>,
         val |-> IF signed /\ s[1] = "-" THEN 0 - value ELSE value]

\* portsInput.split(",").map((p) => parseInt(p.trim(), 10)).filter((p) => !isNaN(p))
ParsePorts(text) ==
    LET parts  == Split(text, ",")
        parsed == [i \in DOMAIN parts |-> parseInt(Trim(parts[i]))]
        kept   == SelectSeq(parsed, LAMBDA p : ~p.nan)
    IN  [i \in DOMAIN kept |-> kept[i].val]

defaultPorts(runtime) ==
    IF runtime = "python" THEN <<"8", "0", "0", "0">> ELSE <<"3", "0", "0", "0">>

\* The input prompt answers its default when nothing is entered.
PortsAnswer(entered, runtime) ==
    IF entered = <<>> THEN defaultPorts(runtime) ELSE entered

\* The wizard before it is started.
WizardIdle ==
    [pc |-> "idle", exit |-> 0, target |-> TRUE, devcontainer |-> FALSE,
     made |-> {}, declined |-> "none"]

----------------------------------------------------------------------------
(* generators/dockerfile.ts: generateDockerfile. The recipe is the         *)
(* sequence of its instructions, in the order of the text; comment lines   *)
(* and blank lines are not instructions. A RUN instruction carries the     *)
(* commands of its && chain, and the package list of apt-get install.      *)

Instr(op, args) == [op |-> op, args |-> args, pkgs |-> <<>>]

isNode(c) == StartsWith(c.runtime, "node")

isPython_Never(c) == FALSE

isPython(c) == c.runtime = "python"

DockerfileUser_Node(c) == "node"

DockerfileUser(c) == IF isPython(c) THEN "vscode" ELSE "node"

firewallPackages_Four(c) ==
    IF c.enableFirewall
    THEN <<"iptables", "ipset", "iproute2", "dnsutils">>
    ELSE <<>>

firewallPackages(c) ==
    IF c.enableFirewall
    THEN <<"iptables", "ipset", "iproute2", "dnsutils", "aggregate">>
    ELSE <<>>

zshSetup ==
    << Instr("ARG", <<"ZSH_IN_DOCKER_VERSION=1.2.0">>),
       Instr("RUN", <<"sh -c \"$(wget -O- https://github.com/deluan/zsh-in-docker/releases/download/v${ZSH_IN_DOCKER_VERSION}/zsh-in-docker.sh)\" -- -p git -p fzf -a \"source /usr/share/doc/fzf/examples/key-bindings.zsh\" -a \"source /usr/share/doc/fzf/examples/completion.zsh\" -a \"export PROMPT_COMMAND='history -a' && export HISTFILE=/commandhistory/.bash_history\" -x">>) >>

claudeAliases(c) ==
    IF c.claudeMode # "none"
    THEN << Instr("RUN",
              <<"echo \"\" >> ~/.zshrc",
                "echo \"# Claude CLI aliases\" >> ~/.zshrc",
                "echo 'alias cc=\"claude --dangerously-skip-permissions\"' >> ~/.zshrc",
                "echo 'alias ccc=\"claude --dangerously-skip-permissions -c\"' >> ~/.zshrc">>) >>
    ELSE <<>>

\* The block without its closing USER instruction.
firewallSetup_NoRestore(c) ==
    IF c.enableFirewall
    THEN << Instr("COPY", <<"init-firewall.sh", "/usr/local/bin/">>),
            Instr("USER", <<"root">>),
            Instr("RUN",
              <<"chmod +x /usr/local/bin/init-firewall.sh",
                "echo \"" \o DockerfileUser(c) \o " ALL=(root) NOPASSWD: /usr/local/bin/init-firewall.sh\" > /etc/sudoers.d/" \o DockerfileUser(c) \o "-firewall",
                "chmod 0440 /etc/sudoers.d/" \o DockerfileUser(c) \o "-firewall">>) >>
    ELSE <<>>

firewallSetup(c) ==
    LET user == DockerfileUser(c)
    IN  IF c.enableFirewall
        THEN << Instr("COPY", <<"init-firewall.sh", "/usr/local/bin/">>),
                Instr("USER", <<"root">>),
                Instr("RUN",
                  <<"chmod +x /usr/local/bin/init-firewall.sh",
                    "echo \"" \o user \o " ALL=(root) NOPASSWD: /usr/local/bin/init-firewall.sh\" > /etc/sudoers.d/" \o user \o "-firewall",
                    "chmod 0440 /etc/sudoers.d/" \o user \o "-firewall">>),
                Instr("USER", <<user>>) >>
        ELSE <<>>

\* pnpm installed on both node variants.
packageManager_PnpmToo(c) ==
    IF c.runtime = "node-pnpm"
    THEN << Instr("RUN", <<"npm install -g pnpm">>) >>
    ELSE << Instr("RUN", <<"npm install -g pnpm">>),
            Instr("RUN", <<"curl -fsSL https://bun.sh/install | bash">>),
            Instr("ENV", <<"PATH=$PATH:/home/node/.bun/bin">>) >>

packageManager(c) ==
    IF c.runtime = "node-pnpm"
    THEN << Instr("RUN", <<"npm install -g pnpm">>) >>
    ELSE << Instr("RUN", <<"curl -fsSL https://bun.sh/install | bash">>),
            Instr("ENV", <<"PATH=$PATH:/home/node/.bun/bin">>) >>

NodeClaudeCli(c) ==
    IF c.claudeMode # "none"
    THEN << Instr("RUN", <<"npm install -g @anthropic-ai/claude-code">>) >>
         \o claudeAliases(c)
    ELSE <<>>

PythonClaudeCli_NodeLast(c) ==
    IF c.claudeMode # "none"
    THEN << Instr("USER", <<"root">>),
            Instr("RUN",
              <<"npm install -g @anthropic-ai/claude-code",
                "curl -fsSL https://deb.nodesource.com/setup_20.x | bash -",
                "apt-get install -y nodejs">>),
            Instr("USER", <<"vscode">>) >>
         \o claudeAliases(c)
    ELSE <<>>

PythonClaudeCli(c) ==
    IF c.claudeMode # "none"
    THEN << Instr("USER", <<"root">>),
            Instr("RUN",
              <<"curl -fsSL https://deb.nodesource.com/setup_20.x | bash -",
                "apt-get install -y nodejs",
                "npm install -g @anthropic-ai/claude-code">>),
            Instr("USER", <<"vscode">>) >>
         \o claudeAliases(c)
    ELSE <<>>

BasePackages ==
    <<"less", "git", "procps", "sudo", "fzf", "zsh", "man-db", "unzip",
      "gnupg2", "gh", "jq", "nano", "vim">>

AptInstall(pkgs) ==
    [op   |-> "RUN",
     args |-> <<"apt-get update",
                "apt-get install -y --no-install-recommends",
                "apt-get clean",
                "rm -rf /var/lib/apt/lists/*">>,
     pkgs |-> pkgs]

ShellConfig ==
    << Instr("ENV", <<"SHELL=/bin/zsh">>),
       Instr("ENV", <<"EDITOR=nano">>),
       Instr("ENV", <<"VISUAL=nano">>) >>

NodeDockerfile(c) ==
    << Instr("FROM", <<"node:" \o c.runtimeVersion>>),
       Instr("ARG", <<"TZ">>),
       Instr("ENV", <<"TZ=\"$TZ\"">>),
       AptInstall(BasePackages \o firewallPackages(c)),
       Instr("RUN", <<"mkdir -p /usr/local/share/npm-global",
                      "chown -R node:node /usr/local/share">>),
       Instr("ARG", <<"USERNAME=node">>),
       Instr("RUN", <<"SNIPPET=\"export PROMPT_COMMAND='history -a' && export HISTFILE=/commandhistory/.bash_history\"",
                      "mkdir /commandhistory",
                      "touch /commandhistory/.bash_history",
                      "chown -R $USERNAME /commandhistory">>),
       Instr("ENV", <<"DEVCONTAINER=true">>),
       Instr("RUN", <<"mkdir -p /workspace /home/node/.claude",
                      "chown -R node:node /workspace /home/node/.claude">>),
       Instr("WORKDIR", <<"/workspace">>),
       Instr("USER", <<"node">>),
       Instr("ENV", <<"NPM_CONFIG_PREFIX=/usr/local/share/npm-global">>),
       Instr("ENV", <<"PATH=$PATH:/usr/local/share/npm-global/bin">>) >>
    \o ShellConfig
    \o zshSetup
    \o packageManager(c)
    \o NodeClaudeCli(c)
    \o firewallSetup(c)

PythonDockerfile(c) ==
    << Instr("FROM", <<"python:" \o c.runtimeVersion>>),
       Instr("ARG", <<"TZ">>),
       Instr("ENV", <<"TZ=\"$TZ\"">>),
       AptInstall(BasePackages \o <<"curl">> \o firewallPackages(c)),
       Instr("ARG", <<"USERNAME=vscode">>),
       Instr("RUN", <<"useradd -ms /bin/zsh $USERNAME",
                      "echo \"$USERNAME ALL=(ALL) NOPASSWD:ALL\" >> /etc/sudoers">>),
       Instr("RUN", <<"mkdir /commandhistory",
                      "touch /commandhistory/.bash_history",
                      "chown -R $USERNAME /commandhistory">>),
       Instr("ENV", <<"DEVCONTAINER=true">>),
       Instr("RUN", <<"mkdir -p /workspace /home/vscode/.claude",
                      "chown -R vscode:vscode /workspace /home/vscode/.claude">>),
       Instr("WORKDIR", <<"/workspace">>),
       Instr("USER", <<"vscode">>) >>
    \o ShellConfig
    \o zshSetup
    \o << Instr("RUN", <<"pip install --user poetry black pylint pytest">>) >>
    \o PythonClaudeCli(c)
    \o firewallSetup(c)

\* The branch of generateDockerfile a configuration takes; the last one is
\* the final `return ""`.
DockerfileBranch(c) ==
    IF isNode(c) THEN "node"
    ELSE IF isPython(c) THEN "python"
    ELSE "empty"

generateDockerfile(c) ==
    IF isNode(c) THEN NodeDockerfile(c)
    ELSE IF isPython(c) THEN PythonDockerfile(c)
    ELSE <<>>

\* index.ts: the copy of generateDockerfile is, line for line, the text of
\* the module's function.
IndexGenerateDockerfile(c) == generateDockerfile(c)

----------------------------------------------------------------------------
(* generators/firewall.ts: generateFirewallScript. The script is modelled  *)
(* by its effect: one action per block of the compiled text, executed      *)
(* under `set -euo pipefail`.                                              *)

\* The for-loop of the compiled script iterates over the resolver's list.
ScriptDomains(c) == getFirewallDomains(c)

\* "${d}" of the resolver's list.
Quote_Bare(d) == d

Quote(d) == "\"" \o d \o "\""

\* Array.prototype.join.
RECURSIVE Join(_, _)
Join(seq, sep) ==
    IF Len(seq) = 0 THEN ""
    ELSE IF Len(seq) = 1 THEN seq[1]
    ELSE seq[1] \o sep \o Join(Tail(seq), sep)

domainList(c) ==
    Join([i \in 1..Len(ScriptDomains(c)) |-> Quote(ScriptDomains(c)[i])], " ")

\* The text of the script, one element per line.
generateFirewallScript(c) ==
    << "#!/bin/bash",
       "set -euo pipefail",
       "IFS=$'\\n\\t'",
       "",
       "# Extract Docker DNS info BEFORE any flushing",
       "DOCKER_DNS_RULES=$(iptables-save -t nat | grep \"127\\.0\\.0\\.11\" || true)",
       "",
       "# Flush existing rules",
       "iptables -F",
       "iptables -X",
       "iptables -t nat -F",
       "iptables -t nat -X",
       "iptables -t mangle -F",
       "iptables -t mangle -X",
       "ipset destroy allowed-domains 2>/dev/null || true",
       "",
       "# Restore Docker DNS rules",
       "if [ -n \"$DOCKER_DNS_RULES\" ]; then",
       "    echo \"Restoring Docker DNS rules...\"",
       "    iptables -t nat -N DOCKER_OUTPUT 2>/dev/null || true",
       "    iptables -t nat -N DOCKER_POSTROUTING 2>/dev/null || true",
       "    echo \"$DOCKER_DNS_RULES\" | xargs -L 1 iptables -t nat",
       "fi",
       "",
       "# Allow DNS and localhost",
       "iptables -A OUTPUT -p udp --dport 53 -j ACCEPT",
       "iptables -A INPUT -p udp --sport 53 -j ACCEPT",
       "iptables -A OUTPUT -p tcp --dport 22 -j ACCEPT",
       "iptables -A INPUT -p tcp --sport 22 -m state --state ESTABLISHED -j ACCEPT",
       "iptables -A INPUT -i lo -j ACCEPT",
       "iptables -A OUTPUT -o lo -j ACCEPT",
       "",
       "# Create ipset",
       "ipset create allowed-domains hash:net",
       "",
       "# Fetch GitHub IP ranges",
       "echo \"Fetching GitHub IP ranges...\"",
       "gh_ranges=$(curl -s https://api.github.com/meta)",
       "if [ -z \"$gh_ranges\" ]; then",
       "    echo \"ERROR: Failed to fetch GitHub IP ranges\"",
       "    exit 1",
       "fi",
       "",
       "echo \"Processing GitHub IPs...\"",
       "while read -r cidr; do",
       "    if [[ ! \"$cidr\" =~ ^[0-9]{1,3}\\.[0-9]{1,3}\\.[0-9]{1,3}\\.[0-9]{1,3}/[0-9]{1,2}$ ]]; then",
       "        continue",
       "    fi",
       "    ipset add allowed-domains \"$cidr\" 2>/dev/null || true",
       "done < <(echo \"$gh_ranges\" | jq -r '(.web + .api + .git)[]' | aggregate -q)",
       "",
       "# Resolve allowed domains",
       "for domain in " \o domainList(c) \o "; do",
       "    echo \"Resolving $domain...\"",
       "    ips=$(dig +short A \"$domain\" || true)",
       "    while read -r ip; do",
       "        if [[ \"$ip\" =~ ^[0-9]{1,3}\\.[0-9]{1,3}\\.[0-9]{1,3}\\.[0-9]{1,3}$ ]]; then",
       "            ipset add allowed-domains \"$ip\" 2>/dev/null || true",
       "        fi",
       "    done < <(echo \"$ips\")",
       "done",
       "",
       "# Get host network",
       "HOST_IP=$(ip route | grep default | cut -d\" \" -f3)",
       "HOST_NETWORK=$(echo \"$HOST_IP\" | sed \"s/\\.[0-9]*$/.0\\/24/\")",
       "echo \"Host network: $HOST_NETWORK\"",
       "",
       "iptables -A INPUT -s \"$HOST_NETWORK\" -j ACCEPT",
       "iptables -A OUTPUT -d \"$HOST_NETWORK\" -j ACCEPT",
       "",
       "# Set default policies",
       "iptables -P INPUT DROP",
       "iptables -P FORWARD DROP",
       "iptables -P OUTPUT DROP",
       "",
       "# Allow established connections",
       "iptables -A INPUT -m state --state ESTABLISHED,RELATED -j ACCEPT",
       "iptables -A OUTPUT -m state --state ESTABLISHED,RELATED -j ACCEPT",
       "",
       "# Allow only whitelisted domains",
       "iptables -A OUTPUT -m set --match-set allowed-domains dst -j ACCEPT",
       "",
       "echo \"Firewall configured successfully\"",
       "" >>

\* index.ts: the copy of generateFirewallScript builds the domain list
\* itself and then returns the same template.
IndexDomains(c) ==
    LET d0 == <<"api.github.com", "github.com">>
        d1 == IF StartsWith(c.runtime, "node")
              THEN d0 \o <<"registry.npmjs.org">> ELSE d0
        d2 == IF c.runtime = "python"
              THEN d1 \o <<"pypi.org", "files.pythonhosted.org">> ELSE d1
        d3 == IF c.claudeMode # "none"
              THEN d2 \o <<"api.anthropic.com", "sentry.io",
                            "statsig.anthropic.com", "statsig.com">>
              ELSE d2
    IN  d3

IndexDomainList(c) ==
    Join([i \in 1..Len(IndexDomains(c)) |-> Quote(IndexDomains(c)[i])], " ")

IndexGenerateFirewallScript(c) ==
    LET text == generateFirewallScript(c)
    IN  [i \in DOMAIN text |->
            IF text[i] = "for domain in " \o domainList(c) \o "; do"
            THEN "for domain in " \o IndexDomainList(c) \o "; do"
            ELSE text[i]]

DockerDns == "127.0.0.11"

Chains == {"INPUT", "OUTPUT", "FORWARD"}

AcceptAll == [c \in Chains |-> "ACCEPT"]

DropAll == [c \in Chains |-> "DROP"]

EmptyTable == [rules |-> <<>>, chains |-> {}]

NoSet == [exists |-> FALSE, members |-> {}]

Rule(chain, match, target) ==
    [chain |-> chain, match |-> match, target |-> target]

NatRule(chain, addr, target) ==
    [chain |-> chain, addr |-> addr, target |-> target]

\* grep "127\.0\.0\.11" on one line of iptables-save -t nat.
MentionsDockerDns(r) == r.addr = DockerDns

\* iptables -F ; iptables -X on one table.
FlushTable(table) == EmptyTable

AllowListRule ==
    Rule("OUTPUT", "-m set --match-set allowed-domains dst", "ACCEPT")

\* The kernel refuses to destroy a set that a rule still references.
SetInUse(flt) == \E i \in DOMAIN flt.rules : flt.rules[i] = AllowListRule

\* ipset destroy allowed-domains 2>/dev/null || true, where the call is
\* forgotten.
DestroySet_Forgotten(set, flt) == set

\* ipset destroy allowed-domains 2>/dev/null || true
DestroySet(set, flt) ==
    IF set.exists /\ ~SetInUse(flt) THEN NoSet ELSE set

BuiltinNatChains == {"PREROUTING", "INPUT", "OUTPUT", "POSTROUTING"}

BuiltinTargets == {"ACCEPT", "DROP", "RETURN", "DNAT", "SNAT", "MASQUERADE"}

\* The restore block without its two chain creations.
RestoreChains_None(chains) == chains

\* iptables -t nat -N DOCKER_OUTPUT || true ; -N DOCKER_POSTROUTING || true
RestoreChains(chains) == chains \cup {"DOCKER_OUTPUT", "DOCKER_POSTROUTING"}

\* iptables -t nat <line> succeeds when the line's chain and jump target exist.
ReplayOk(chains, r) ==
    /\ r.chain \in BuiltinNatChains \cup chains
    /\ r.target \in BuiltinTargets \cup chains

\* echo "$DOCKER_DNS_RULES" | xargs -L 1 iptables -t nat: every line is
\* tried; xargs exits 123 when any invocation failed.
Replay(table, lines) ==
    [table EXCEPT
        !.rules = @ \o SelectSeq(lines, LAMBDA r : ReplayOk(table.chains, r))]

ReplayStatus(table, lines) ==
    IF \A i \in DOMAIN lines : ReplayOk(table.chains, lines[i]) THEN 0 ELSE 123

BaselineRules ==
    <<Rule("OUTPUT", "-p udp --dport 53", "ACCEPT"),
      Rule("INPUT", "-p udp --sport 53", "ACCEPT"),
      Rule("OUTPUT", "-p tcp --dport 22", "ACCEPT"),
      Rule("INPUT", "-p tcp --sport 22 -m state --state ESTABLISHED", "ACCEPT"),
      Rule("INPUT", "-i lo", "ACCEPT"),
      Rule("OUTPUT", "-o lo", "ACCEPT")>>

\* sed "s/\.[0-9]*$/.0\/24/" on the gateway address of the default route.
HostNetworkOf(gw) ==
    ToString(gw[1]) \o "." \o ToString(gw[2]) \o "." \o ToString(gw[3]) \o ".0/24"

HostRules(net) ==
    <<Rule("INPUT", "-s " \o net, "ACCEPT"),
      Rule("OUTPUT", "-d " \o net, "ACCEPT")>>

EstablishedRules ==
    <<Rule("INPUT", "-m state --state ESTABLISHED,RELATED", "ACCEPT"),
      Rule("OUTPUT", "-m state --state ESTABLISHED,RELATED", "ACCEPT")>>

(* Lines of text the loops read: a CIDR, a bare address, or anything else. *)

Cidr(a, b, c, d, p) == [kind |-> "cidr", octets |-> <<a, b, c, d>>, prefix |-> p]

Ip(a, b, c, d) == [kind |-> "ip", octets |-> <<a, b, c, d>>, prefix |-> 32]

OtherText == [kind |-> "text", octets |-> <<>>, prefix |-> 0]

\* ^[0-9]{1,3}\.[0-9]{1,3}\.[0-9]{1,3}\.[0-9]{1,3}/[0-9]{1,2}$
MatchesCidr(line) ==
    /\ line.kind = "cidr"
    /\ \A i \in 1..4 : line.octets[i] \in 0..999
    /\ line.prefix \in 0..99

\* ^[0-9]{1,3}\.[0-9]{1,3}\.[0-9]{1,3}\.[0-9]{1,3}$
MatchesIp(line) ==
    /\ line.kind = "ip"
    /\ \A i \in 1..4 : line.octets[i] \in 0..999

\* What a hash:net set stores for an accepted line: the network address
\* masked to its prefix, and the prefix.
Entry(line) ==
    LET kept(k) == IF line.prefix >= 8 * k THEN 8
                   ELSE IF line.prefix <= 8 * (k - 1) THEN 0
                   ELSE line.prefix - 8 * (k - 1)
        mask(k) == line.octets[k] - (line.octets[k] % (2 ^ (8 - kept(k))))
    IN  <<mask(1), mask(2), mask(3), mask(4), line.prefix>>

\* ipset add allowed-domains <line>: refused for a missing set, an address
\* out of range, a prefix outside 1..32, or an element already in the set.
IpsetAdd(set, line) ==
    IF /\ set.exists
       /\ \A i \in 1..4 : line.octets[i] <= 255
       /\ line.prefix \in 1..32
       /\ Entry(line) \notin set.members
    THEN [set |-> [set EXCEPT !.members = @ \cup {Entry(line)}], status |-> 0]
    ELSE [set |-> set, status |-> 1]

\* while read -r cidr; do [[ regex ]] || continue; ipset add ... || true; done
RECURSIVE AddRanges(_, _)
AddRanges(set, lines) ==
    IF lines = <<>> THEN set
    ELSE IF ~MatchesCidr(Head(lines)) THEN AddRanges(set, Tail(lines))
    ELSE AddRanges(IpsetAdd(set, Head(lines)).set, Tail(lines))

\* while read -r ip; do if [[ regex ]]; then ipset add ... || true; fi; done
RECURSIVE AddAddresses(_, _)
AddAddresses(set, lines) ==
    IF lines = <<>> THEN set
    ELSE IF MatchesIp(Head(lines))
    THEN AddAddresses(IpsetAdd(set, Head(lines)).set, Tail(lines))
    ELSE AddAddresses(set, Tail(lines))

\* Whether some ipset add of the range loop is refused.
RECURSIVE SomeRangeRefused(_, _)
SomeRangeRefused(set, lines) ==
    IF lines = <<>> THEN FALSE
    ELSE IF ~MatchesCidr(Head(lines)) THEN SomeRangeRefused(set, Tail(lines))
    ELSE \/ IpsetAdd(set, Head(lines)).status # 0
         \/ SomeRangeRefused(IpsetAdd(set, Head(lines)).set, Tail(lines))

----------------------------------------------------------------------------
(* The execution environment of the script *)

\* What dig +short A prints for a domain that resolves.
Zone(d) ==
    CASE d = "api.github.com"         -> <<Ip(140, 82, 112, 5)>>
      [] d = "github.com"             -> <<Ip(140, 82, 112, 3)>>
      [] d = "registry.npmjs.org"     -> <<Ip(104, 16, 0, 35), Ip(104, 16, 1, 35)>>
      [] d = "pypi.org"               -> <<Ip(151, 101, 0, 223)>>
      [] d = "files.pythonhosted.org" -> <<OtherText, Ip(151, 101, 0, 223)>>
      [] d = "api.anthropic.com"      -> <<Ip(160, 79, 104, 10)>>
      [] d = "sentry.io"              -> <<Ip(35, 186, 247, 156)>>
      [] d = "statsig.anthropic.com"  -> <<Ip(34, 128, 128, 0)>>
      [] d = "statsig.com"            -> <<Ip(34, 128, 128, 0)>>

\* ips=$(dig +short A "$domain" || true) ; echo "$ips"
DigLines(e, d) == IF d \in e.down THEN <<OtherText>> ELSE Zone(d)

\* What jq '(.web + .api + .git)[]' | aggregate -q yields for a metadata
\* document: well-formed ranges, an IPv6 range, an out-of-range address, a
\* repeated range, a zero prefix.
RangeLineChoices ==
    {<<>>,
     <<Cidr(192, 30, 252, 0, 22), Cidr(140, 82, 112, 0, 20)>>,
     <<Cidr(192, 30, 252, 0, 22), OtherText, Cidr(999, 1, 1, 1, 24),
       Cidr(192, 30, 252, 7, 22), Cidr(0, 0, 0, 0, 0)>>}

\* The lines the range loop reads: jq fails on a body that is no JSON
\* document and the loop then reads nothing.
RangeLines(e) == IF e.curlBody = "json" THEN e.rangeLines ELSE <<>>

Gateways == {<<>>, <<172, 17, 0, 1>>}

DockerNatRules ==
    <<NatRule("OUTPUT", DockerDns, "DOCKER_OUTPUT"),
      NatRule("POSTROUTING", DockerDns, "DOCKER_POSTROUTING"),
      NatRule("DOCKER_OUTPUT", DockerDns, "DNAT"),
      NatRule("DOCKER_POSTROUTING", DockerDns, "SNAT")>>

DockerNat ==
    [rules |-> DockerNatRules, chains |-> {"DOCKER_OUTPUT", "DOCKER_POSTROUTING"}]

\* The packet-filter and IP-set state a container can start the script in:
\* no rules at all, Docker's embedded-DNS rules, or those next to other
\* rules and chains.
HostStates ==
    {[policy |-> AcceptAll, filter |-> EmptyTable, nat |-> EmptyTable,
      mangle |-> EmptyTable, ipset |-> NoSet],
     [policy |-> AcceptAll, filter |-> EmptyTable, nat |-> DockerNat,
      mangle |-> EmptyTable, ipset |-> NoSet],
     [policy |-> AcceptAll,
      filter |-> [rules |-> <<Rule("LOGGING", "-p icmp", "DROP")>>,
                  chains |-> {"LOGGING"}],
      nat    |-> [rules |-> DockerNatRules \o
                            <<NatRule("POSTROUTING", "172.17.0.0/16", "MASQUERADE")>>,
                  chains |-> {"DOCKER_OUTPUT", "DOCKER_POSTROUTING"}],
      mangle |-> [rules |-> <<Rule("PREROUTING", "-p tcp", "RETURN")>>,
                  chains |-> {}],
      ipset  |-> NoSet]}

DownSets(c) ==
    {s \in SUBSET Range(ScriptDomains(c)) : Cardinality(s) <= MaxDown}

Envs(c) ==
    {e \in [curlExit : {0, 7}, curlBody : {"", "html", "json"},
            rangeLines : RangeLineChoices, down : DownSets(c),
            gateway : Gateways] :
        (e.curlExit # 0 \/ e.curlBody # "json") => e.rangeLines = <<>>}

Kernel ==
    [policy |-> policy, filter |-> filter, nat |-> nat, mangle |-> mangle,
     ipset |-> ipset]

FreshShell ==
    [DOCKER_DNS_RULES |-> <<>>, gh_ranges |-> "", i |-> 1, HOST_NETWORK |-> ""]

----------------------------------------------------------------------------
(* The compiled script, block by block *)

Say(line) == out' = Append(out, line)

\* set -e: the first failing command ends the script with its status.
Exit(code) == pc' = "exited" /\ status' = code

\* DOCKER_DNS_RULES=$(iptables-save -t nat | grep "127\.0\.0\.11" || true)
SnapshotDockerDns ==
    /\ pc = "snapshot"
    /\ shv' = [shv EXCEPT !.DOCKER_DNS_RULES =
                              SelectSeq(nat.rules, MentionsDockerDns)]
    /\ pc' = "flush"
    /\ UNCHANGED <<genvars, kernelvars, status, out, env, run, start, first>>

\* iptables -F/-X, iptables -t nat -F/-X, iptables -t mangle -F/-X
FlushRules ==
    /\ pc = "flush"
    /\ filter' = FlushTable(filter)
    /\ nat' = FlushTable(nat)
    /\ mangle' = FlushTable(mangle)
    /\ pc' = "destroy"
    /\ UNCHANGED <<genvars, policy, ipset, status, shv, out, env, run, start, first>>

DestroyAllowList ==
    /\ pc = "destroy"
    /\ ipset' = DestroySet(ipset, filter)
    /\ pc' = "restore"
    /\ UNCHANGED <<genvars, policy, filter, nat, mangle, status, shv, out, env,
                   run, start, first>>

\* if [ -n "$DOCKER_DNS_RULES" ]; then ... fi
RestoreDockerDns ==
    /\ pc = "restore"
    /\ IF shv.DOCKER_DNS_RULES = <<>>
       THEN /\ pc' = "baseline"
            /\ UNCHANGED <<nat, out, status>>
       ELSE LET withChains == [nat EXCEPT !.chains = RestoreChains(@)]
                code == ReplayStatus(withChains, shv.DOCKER_DNS_RULES)
            IN  /\ Say("Restoring Docker DNS rules...")
                /\ nat' = Replay(withChains, shv.DOCKER_DNS_RULES)
                /\ IF code = 0
                   THEN pc' = "baseline" /\ UNCHANGED status
                   ELSE Exit(code)
    /\ UNCHANGED <<genvars, policy, filter, mangle, ipset, shv, env, run,
                   start, first>>

AllowBaseline ==
    /\ pc = "baseline"
    /\ filter' = [filter EXCEPT !.rules = @ \o BaselineRules]
    /\ pc' = "create"
    /\ UNCHANGED <<genvars, policy, nat, mangle, ipset, status, shv, out, env,
                   run, start, first>>

\* ipset create allowed-domains hash:net
CreateAllowList ==
    /\ pc = "create"
    /\ IF ipset.exists
       THEN Exit(1) /\ UNCHANGED ipset
       ELSE /\ ipset' = [exists |-> TRUE, members |-> {}]
            /\ pc' = "fetch"
            /\ UNCHANGED status
    /\ UNCHANGED <<genvars, policy, filter, nat, mangle, shv, out, env, run,
                   start, first>>

\* gh_ranges=$(curl -s https://api.github.com/meta) and the -z test
FetchRanges ==
    /\ pc = "fetch"
    /\ shv' = [shv EXCEPT !.gh_ranges = env.curlBody]
    /\ IF env.curlExit # 0
       THEN /\ Say("Fetching GitHub IP ranges...")
            /\ Exit(env.curlExit)
       ELSE IF env.curlBody = ""
       THEN /\ out' = out \o <<"Fetching GitHub IP ranges...",
                               "ERROR: Failed to fetch GitHub IP ranges">>
            /\ Exit(1)
       ELSE /\ Say("Fetching GitHub IP ranges...")
            /\ pc' = "ranges"
            /\ UNCHANGED status
    /\ UNCHANGED <<genvars, kernelvars, env, run, start, first>>

\* The range loop with `|| true` dropped from its ipset add.
ProcessRanges_Strict ==
    /\ pc = "ranges"
    /\ Say("Processing GitHub IPs...")
    /\ ipset' = AddRanges(ipset, RangeLines(env))
    /\ IF SomeRangeRefused(ipset, RangeLines(env))
       THEN Exit(1) /\ UNCHANGED shv
       ELSE /\ shv' = [shv EXCEPT !.i = 1]
            /\ pc' = "resolve"
            /\ UNCHANGED status
    /\ UNCHANGED <<genvars, policy, filter, nat, mangle, env, run, start, first>>

ProcessRanges ==
    /\ pc = "ranges"
    /\ Say("Processing GitHub IPs...")
    /\ ipset' = AddRanges(ipset, RangeLines(env))
    /\ shv' = [shv EXCEPT !.i = 1]
    /\ pc' = "resolve"
    /\ UNCHANGED <<genvars, policy, filter, nat, mangle, status, env, run,
                   start, first>>

\* One iteration of: for domain in <domainList>; do ... done
ResolveDomain ==
    /\ pc = "resolve"
    /\ LET list   == ScriptDomains(config)
           domain == list[shv.i]
       IN  /\ Say("Resolving " \o domain \o "...")
           /\ ipset' = AddAddresses(ipset, DigLines(env, domain))
           /\ shv' = [shv EXCEPT !.i = @ + 1]
           /\ pc' = IF shv.i = Len(list) THEN "hostnet" ELSE "resolve"
    /\ UNCHANGED <<genvars, policy, filter, nat, mangle, status, env, run,
                   start, first>>

\* HOST_IP=$(ip route | grep default | cut -d" " -f3) ; HOST_NETWORK=$(...)
GetHostNetwork ==
    /\ pc = "hostnet"
    /\ IF env.gateway = <<>>
       THEN Exit(1) /\ UNCHANGED <<shv, out>>
       ELSE /\ shv' = [shv EXCEPT !.HOST_NETWORK = HostNetworkOf(env.gateway)]
            /\ Say("Host network: " \o HostNetworkOf(env.gateway))
            /\ pc' = "hostrules"
            /\ UNCHANGED status
    /\ UNCHANGED <<genvars, kernelvars, env, run, start, first>>

\* The host-network block with its two rules left out.
AllowHostNetwork_Skipped ==
    /\ pc = "hostrules"
    /\ pc' = "policies"
    /\ UNCHANGED <<genvars, kernelvars, status, shv, out, env, run, start, first>>

AllowHostNetwork ==
    /\ pc = "hostrules"
    /\ filter' = [filter EXCEPT !.rules = @ \o HostRules(shv.HOST_NETWORK)]
    /\ pc' = "policies"
    /\ UNCHANGED <<genvars, policy, nat, mangle, ipset, status, shv, out, env,
                   run, start, first>>

\* iptables -P INPUT DROP ; -P FORWARD DROP ; -P OUTPUT DROP
SetDefaultPolicies ==
    /\ pc = "policies"
    /\ policy' = DropAll
    /\ pc' = "established"
    /\ UNCHANGED <<genvars, filter, nat, mangle, ipset, status, shv, out, env,
                   run, start, first>>

AllowEstablished ==
    /\ pc = "established"
    /\ filter' = [filter EXCEPT !.rules = @ \o EstablishedRules]
    /\ pc' = "allowlist"
    /\ UNCHANGED <<genvars, policy, nat, mangle, ipset, status, shv, out, env,
                   run, start, first>>

\* iptables -A OUTPUT -m set --match-set allowed-domains dst -j ACCEPT, and
\* the closing echo: the script ends with status 0.
AllowAllowList ==
    /\ pc = "allowlist"
    /\ filter' = [filter EXCEPT !.rules = Append(@, AllowListRule)]
    /\ Say("Firewall configured successfully")
    /\ pc' = "done"
    /\ status' = 0
    /\ UNCHANGED <<genvars, policy, nat, mangle, ipset, shv, env, run, start,
                   first>>

\* The script is executed again in the state a successful execution left,
\* with the same answers from curl, dig and ip route.
RunAgain ==
    /\ pc = "done"
    /\ run = 1
    /\ run' = 2
    /\ first' = Kernel
    /\ start' = Kernel
    /\ pc' = "snapshot"
    /\ shv' = FreshShell
    /\ out' = <<>>
    /\ UNCHANGED <<genvars, kernelvars, status, env>>

FirewallIdle ==
    /\ pc = "idle"
    /\ status = 0
    /\ shv = FreshShell
    /\ out = <<>>
    /\ policy = AcceptAll
    /\ filter = EmptyTable
    /\ nat = EmptyTable
    /\ mangle = EmptyTable
    /\ ipset = NoSet
    /\ env = [curlExit |-> 0, curlBody |-> "", rangeLines |-> <<>>,
              down |-> {}, gateway |-> <<>>]
    /\ run = 1
    /\ start = [policy |-> AcceptAll, filter |-> EmptyTable, nat |-> EmptyTable,
                mangle |-> EmptyTable, ipset |-> NoSet]
    /\ first = start

\* The script generated for a configuration starts in a container.
FirewallInit ==
    /\ config \in {c \in Configs : /\ c.runtimeVersion \in VersionsOf(c.runtime)
                                   /\ c.enableFirewall
                                   /\ c.ports = <<3000>>}
    /\ done = {}
    /\ domains = <<>>
    /\ manifest = <<>>
    /\ recipe = <<>>
    /\ script = <<>>
    /\ files = <<>>
    /\ wpc = "json"
    /\ refs = ConfigRefs
    /\ wz = WizardIdle
    /\ env \in Envs(config)
    /\ start \in HostStates
    /\ first = start
    /\ policy = start.policy
    /\ filter = start.filter
    /\ nat = start.nat
    /\ mangle = start.mangle
    /\ ipset = start.ipset
    /\ run = 1
    /\ pc = "snapshot"
    /\ status = 0
    /\ shv = FreshShell
    /\ out = <<>>

FirewallNext ==
    \/ SnapshotDockerDns
    \/ FlushRules
    \/ DestroyAllowList
    \/ RestoreDockerDns
    \/ AllowBaseline
    \/ CreateAllowList
    \/ FetchRanges
    \/ ProcessRanges
    \/ ResolveDomain
    \/ GetHostNetwork
    \/ AllowHostNetwork
    \/ SetDefaultPolicies
    \/ AllowEstablished
    \/ AllowAllowList
    \/ RunAgain

SpecFirewall == FirewallInit /\ [][FirewallNext]_vars

----------------------------------------------------------------------------
(* The generators applied to one configuration value *)

Init ==
    /\ config \in {c \in Configs : c.runtimeVersion \in VersionsOf(c.runtime)}
    /\ done = {}
    /\ domains = <<>>
    /\ manifest = <<>>
    /\ recipe = <<>>
    /\ script = <<>>
    /\ files = <<>>
    /\ wpc = "json"
    /\ refs = ConfigRefs
    /\ wz = WizardIdle
    /\ FirewallIdle

CallGetFirewallDomains ==
    /\ "domains" \notin done
    /\ domains' = getFirewallDomains(config)
    /\ done' = done \cup {"domains"}
    /\ UNCHANGED <<config, manifest, recipe, script, files, wpc, refs, wz,
                   fwvars>>

CallGenerateDevcontainerJson ==
    /\ "json" \notin done
    /\ manifest' = generateDevcontainerJson(config)
    /\ refs' = ManifestRefs(refs) @@ refs
    /\ done' = done \cup {"json"}
    /\ UNCHANGED <<config, domains, recipe, script, files, wpc, wz, fwvars>>

CallGenerateDockerfile ==
    /\ "dockerfile" \notin done
    /\ recipe' = generateDockerfile(config)
    /\ done' = done \cup {"dockerfile"}
    /\ UNCHANGED <<config, domains, manifest, script, files, wpc, refs, wz,
                   fwvars>>

CallGenerateFirewallScript ==
    /\ "script" \notin done
    /\ script' = generateFirewallScript(config)
    /\ done' = done \cup {"script"}
    /\ UNCHANGED <<config, domains, manifest, recipe, files, wpc, refs, wz,
                   fwvars>>

\* index.ts: generateDevcontainer, one step per file it writes. The
\* generators it calls are the ones inlined in index.ts.
WriteFile(name, content) == files' = (name :> content) @@ files

WriteDevcontainerJson ==
    /\ wpc = "json"
    /\ WriteFile("devcontainer.json", IndexGenerateDevcontainerJson(config))
    /\ wpc' = "dockerfile"
    /\ wz' = [wz EXCEPT !.devcontainer = TRUE,
                        !.made = IF wz.devcontainer THEN @
                                 ELSE @ \cup {".devcontainer"}]
    /\ UNCHANGED <<config, done, domains, manifest, recipe, script, refs, fwvars>>

WriteDockerfile ==
    /\ wpc = "dockerfile"
    /\ WriteFile("Dockerfile", IndexGenerateDockerfile(config))
    /\ wpc' = "firewall"
    /\ UNCHANGED <<config, done, domains, manifest, recipe, script, refs, wz,
                   fwvars>>

\* The orchestrator without its `if (config.enableFirewall)`.
WriteFirewallScript_Always ==
    /\ wpc = "firewall"
    /\ WriteFile("init-firewall.sh", IndexGenerateFirewallScript(config))
    /\ wpc' = "written"
    /\ UNCHANGED <<config, done, domains, manifest, recipe, script, refs, wz,
                   fwvars>>

WriteFirewallScript ==
    /\ wpc = "firewall"
    /\ IF config.enableFirewall
       THEN WriteFile("init-firewall.sh", IndexGenerateFirewallScript(config))
       ELSE UNCHANGED files
    /\ wpc' = "written"
    /\ UNCHANGED <<config, done, domains, manifest, recipe, script, refs, wz,
                   fwvars>>

Next ==
    \/ CallGetFirewallDomains
    \/ CallGenerateDevcontainerJson
    \/ CallGenerateDockerfile
    \/ CallGenerateFirewallScript
    \/ WriteDevcontainerJson
    \/ WriteDockerfile
    \/ WriteFirewallScript

Spec == Init /\ [][Next]_vars

----------------------------------------------------------------------------
(* index.ts: main, the wizard around generateDevcontainer *)

\* `config` before the wizard has built it.
NoConfigYet ==
    [containerName |-> "", runtime |-> "node-pnpm", runtimeVersion |-> "20",
     timezone |-> "", ports |-> <<>>, enableFirewall |-> FALSE,
     claudeMode |-> "none", extensions |-> <<>>]

\* What a .devcontainer directory left by an earlier run holds.
PreviousFiles == ("devcontainer.json" :> [name |-> "previous"])

\* Bun.file(path).exists() on a directory: what it answers for a directory
\* that is there depends on the runtime; for a missing one it answers false.
Exists(present) == IF present THEN BOOLEAN ELSE {FALSE}

WizardInit ==
    /\ config = NoConfigYet
    /\ done = {}
    /\ domains = <<>>
    /\ manifest = <<>>
    /\ recipe = <<>>
    /\ script = <<>>
    /\ refs = ConfigRefs
    /\ wpc = "wizard"
    /\ \E t, d \in BOOLEAN :
          /\ d => t
          /\ wz = [pc |-> "target", exit |-> 0, target |-> t,
                   devcontainer |-> d, made |-> {}, declined |-> "none"]
          /\ files = IF d THEN PreviousFiles ELSE <<>>
    /\ FirewallIdle

\* Lines 61-79: the target directory.
AskTargetDir ==
    /\ wz.pc = "target"
    /\ \E seen \in Exists(wz.target), create \in BOOLEAN :
          wz' = IF seen THEN [wz EXCEPT !.pc = "overwrite"]
                ELSE IF create
                THEN [wz EXCEPT !.pc = "overwrite", !.target = TRUE,
                                !.made = IF wz.target THEN @ ELSE @ \cup {"target"}]
                ELSE [wz EXCEPT !.pc = "exited", !.exit = 1,
                                !.declined = "create"]
    /\ UNCHANGED <<config, done, domains, manifest, recipe, script, files, wpc,
                   refs, fwvars>>

\* The overwrite question answered no, and the answer not acted upon.
AskOverwrite_Ignored ==
    /\ wz.pc = "overwrite"
    /\ \E seen \in Exists(wz.devcontainer), overwrite \in BOOLEAN :
          wz' = IF seen /\ ~overwrite
                THEN [wz EXCEPT !.pc = "prompts", !.declined = "overwrite"]
                ELSE [wz EXCEPT !.pc = "prompts"]
    /\ UNCHANGED <<config, done, domains, manifest, recipe, script, files, wpc,
                   refs, fwvars>>

\* Lines 81-91: an existing .devcontainer.
AskOverwrite ==
    /\ wz.pc = "overwrite"
    /\ \E seen \in Exists(wz.devcontainer), overwrite \in BOOLEAN :
          wz' = IF seen /\ ~overwrite
                THEN [wz EXCEPT !.pc = "exited", !.exit = 1,
                                !.declined = "overwrite"]
                ELSE [wz EXCEPT !.pc = "prompts"]
    /\ UNCHANGED <<config, done, domains, manifest, recipe, script, files, wpc,
                   refs, fwvars>>

\* Lines 93-165: the prompts, the configuration built from the answers, and
\* the call of generateDevcontainer.
AskConfiguration ==
    /\ wz.pc = "prompts"
    /\ \E runtime \in Runtimes, claudeMode \in ClaudeModes,
          enableFirewall \in BOOLEAN, entered \in PortsInputs :
          \E runtimeVersion \in VersionsOf(runtime) :
              config' = [containerName  |-> IF runtime = "python"
                                            THEN "Python Dev" ELSE "Node Dev",
                         runtime        |-> runtime,
                         runtimeVersion |-> runtimeVersion,
                         timezone       |-> "Europe/Paris",
                         ports          |-> ParsePorts(PortsAnswer(entered, runtime)),
                         enableFirewall |-> enableFirewall,
                         claudeMode     |-> claudeMode,
                         extensions     |-> ExtensionsOf(runtime)]
    /\ wz' = [wz EXCEPT !.pc = "generate"]
    /\ wpc' = "json"
    /\ UNCHANGED <<done, domains, manifest, recipe, script, files, refs, fwvars>>

\* Lines 167-171: generateDevcontainer has returned.
Finish ==
    /\ wz.pc = "generate"
    /\ wpc = "written"
    /\ wz' = [wz EXCEPT !.pc = "finished"]
    /\ UNCHANGED <<config, done, domains, manifest, recipe, script, files, wpc,
                   refs, fwvars>>

WizardNext ==
    \/ AskTargetDir
    \/ AskOverwrite
    \/ AskConfiguration
    \/ WriteDevcontainerJson
    \/ WriteDockerfile
    \/ WriteFirewallScript
    \/ Finish

SpecWizard == WizardInit /\ [][WizardNext]_vars

----------------------------------------------------------------------------
(* Properties of the generators *)

\* C1: for every configuration the list returned by getFirewallDomains has
\* no duplicate entry and contains both api.github.com and github.com.
C1_NoDuplicatesAndGitHub ==
    "domains" \in done =>
        /\ NoDuplicates(domains)
        /\ "api.github.com" \in Range(domains)
        /\ "github.com" \in Range(domains)

C1_Witness ==
    /\ "domains" \in done
    /\ config.runtime = "python"
    /\ config.claudeMode = "local"
    /\ Len(domains) = 8

\* C2: a node-family runtime yields registry.npmjs.org and neither PyPI
\* domain; python yields both PyPI domains and not registry.npmjs.org;
\* exactly one of the two runtime rules fires for every runtime value.
C2_RuntimeRulesExclusive ==
    "domains" \in done =>
        /\ config.runtime \in {"node-pnpm", "node-bun"} =>
              /\ "registry.npmjs.org" \in Range(domains)
              /\ "pypi.org" \notin Range(domains)
              /\ "files.pythonhosted.org" \notin Range(domains)
        /\ config.runtime = "python" =>
              /\ "pypi.org" \in Range(domains)
              /\ "files.pythonhosted.org" \in Range(domains)
              /\ "registry.npmjs.org" \notin Range(domains)
        /\ NodeRule(config) # PythonRule(config)

C2_Witness ==
    /\ "domains" \in done
    /\ config.runtime = "node-bun"
    /\ "registry.npmjs.org" \in Range(domains)

\* C3: mode none yields none of the four assistant domains; local and fresh
\* each yield all four, and for the same runtime the lists returned for
\* local and for fresh are the same sequence.
C3_AssistantDomains ==
    "domains" \in done =>
        /\ config.claudeMode = "none" =>
              Range(domains) \cap Range(AnthropicDomains) = {}
        /\ config.claudeMode \in {"local", "fresh"} =>
              /\ Range(AnthropicDomains) \subseteq Range(domains)
              /\ \A m \in {"local", "fresh"} :
                    getFirewallDomains([config EXCEPT !.claudeMode = m]) = domains

C3_Witness ==
    /\ "domains" \in done
    /\ config.claudeMode = "fresh"
    /\ "statsig.com" \in Range(domains)

\* C9: the manifest's forwardPorts equals the configured ports sequence:
\* same length, same elements, same order, duplicates included.
C9_ForwardPortsEqualsPorts ==
    "json" \in done =>
        /\ Len(manifest.forwardPorts) = Len(config.ports)
        /\ \A i \in 1..Len(config.ports) :
              manifest.forwardPorts[i] = config.ports[i]

C9_Witness ==
    /\ "json" \in done
    /\ Len(config.ports) = 2
    /\ config.ports[1] = config.ports[2]
    /\ Len(manifest.forwardPorts) = 2

\* C10: for every ports sequence, repeated numbers included, the manifest
\* has one port-metadata entry per port of the sequence, the entry of the
\* first port is labelled "Application" and the entry of every other port
\* is labelled "Port <its number>".
C10_OneEntryPerPort ==
    "json" \in done =>
        LET pa    == manifest.portsAttributes
            ports == config.ports
        IN  /\ Cardinality(DOMAIN pa) = Len(ports)
            /\ Len(ports) >= 1 => pa[ToString(ports[1])].label = "Application"
            /\ \A i \in 2..Len(ports) :
                  pa[ToString(ports[i])].label = "Port " \o ToString(ports[i])

----------------------------------------------------------------------------
(* Properties of the compiled firewall script *)

DiagnosticLine == "ERROR: Failed to fetch GitHub IP ranges"

\* The two rules the host-network block installs for the route's gateway.
ExpectedHostRules ==
    {Rule("INPUT", "-s " \o HostNetworkOf(env.gateway), "ACCEPT"),
     Rule("OUTPUT", "-d " \o HostNetworkOf(env.gateway), "ACCEPT")}

\* The rules installed before the default policies are set ...
EarlyAcceptRules == Range(BaselineRules) \cup ExpectedHostRules

\* ... and the rules installed after them.
LateAcceptRules == Range(EstablishedRules) \cup {AllowListRule}

BeforeFetchDone ==
    {"snapshot", "flush", "destroy", "restore", "baseline", "create", "fetch"}

BeforeRestoreDone == {"snapshot", "flush", "destroy", "restore"}

C5_AllAcceptRulesBeforeDrop ==
    pc = "policies" =>
        EarlyAcceptRules \cup LateAcceptRules \subseteq Range(filter.rules)

\* C5 as amended: at the step that sets the default policies to DROP the
\* baseline (DNS, SSH, loopback) and host-network ACCEPT rules are already
\* present, and an execution that began with ACCEPT policies has DROP
\* policies only once they are; the ESTABLISHED,RELATED rules and the
\* allow-list rule are in the table only while the policies are DROP.
C5_EarlyRulesBeforeDrop ==
    /\ pc = "policies" => EarlyAcceptRules \subseteq Range(filter.rules)
    /\ (start.policy = AcceptAll /\ policy # AcceptAll) =>
            /\ policy = DropAll
            /\ EarlyAcceptRules \subseteq Range(filter.rules)
    /\ Range(filter.rules) \cap LateAcceptRules # {} => policy = DropAll

C5_Witness ==
    /\ pc = "policies"
    /\ run = 1
    /\ policy = AcceptAll
    /\ Len(filter.rules) = Len(BaselineRules) + 2
    /\ Range(filter.rules) \cap LateAcceptRules = {}

\* C6: when the metadata fetch produces an empty response the script aborts
\* with a non-zero status and the diagnostic message, and no later step
\* runs: nothing is added to the allow-list, and neither the default-deny
\* policies nor the allow-list rule are installed.
C6_EmptyResponseAbortsWithDiagnostic ==
    (pc \notin BeforeFetchDone /\ env.curlBody = "") =>
        /\ pc = "exited"
        /\ status # 0
        /\ DiagnosticLine \in Range(out)
        /\ ipset.members = {}
        /\ policy = AcceptAll
        /\ AllowListRule \notin Range(filter.rules)

\* C7 as stated, with "the response is non-empty" read as a fetch that
\* succeeded with a non-empty body: in every such environment the script is
\* not aborted, and it ends with default-deny policies and the allow-list
\* rule installed.
C7_EmptyResponseOnlyFatal ==
    (env.curlExit = 0 /\ env.curlBody # "") =>
        /\ pc # "exited"
        /\ pc = "done" => (policy = DropAll /\ AllowListRule \in Range(filter.rules))

\* C7 as amended: the script aborts only when the fetch command exits
\* non-zero, when its response is empty, or when no default route is found;
\* in every other environment, whatever malformed ranges, unresolvable
\* domains and refused insertions occur, it proceeds step by step to its
\* last step and ends with default-deny policies and the allow-list rule.
C7_PerItemFailuresSwallowed ==
    /\ pc = "exited" =>
          \/ env.curlExit # 0
          \/ env.curlBody = ""
          \/ env.gateway = <<>>
    /\ pc \notin {"done", "exited"} => ENABLED FirewallNext
    /\ pc = "done" =>
          /\ status = 0
          /\ policy = DropAll
          /\ AllowListRule \in Range(filter.rules)

C7_Witness ==
    /\ pc = "done"
    /\ run = 1
    /\ env.down # {}
    /\ \E i \in DOMAIN env.rangeLines : ~MatchesCidr(env.rangeLines[i])
    /\ SomeRangeRefused([exists |-> TRUE, members |-> {}], env.rangeLines)
    /\ policy = DropAll

\* C8: the NAT rules that mention 127.0.0.11 are snapshotted before any
\* flush or chain deletion; when the snapshot is non-empty DOCKER_OUTPUT and
\* DOCKER_POSTROUTING are recreated and the replay succeeds, so every
\* snapshotted rule is in the NAT table again after the reset; when it is
\* empty nothing is replayed.
C8_DockerDnsPreserved ==
    /\ pc = "snapshot" => Kernel = start
    /\ pc # "snapshot" =>
          shv.DOCKER_DNS_RULES = SelectSeq(start.nat.rules, MentionsDockerDns)
    /\ ~(pc = "exited" /\ status = 123)
    /\ pc \notin BeforeRestoreDone =>
          IF shv.DOCKER_DNS_RULES # <<>>
          THEN /\ {"DOCKER_OUTPUT", "DOCKER_POSTROUTING"} \subseteq nat.chains
               /\ nat.rules = shv.DOCKER_DNS_RULES
          ELSE nat = EmptyTable

C8_Witness ==
    /\ pc = "baseline"
    /\ run = 1
    /\ shv.DOCKER_DNS_RULES = DockerNatRules
    /\ Len(start.nat.rules) > Len(nat.rules)
    /\ nat.rules = DockerNatRules

----------------------------------------------------------------------------
(* Properties of the manifest and the recipe *)

\* The user the specification assigns to a runtime.
ExpectedUser == IF config.runtime = "python" THEN "vscode" ELSE "node"

ClaudeDirMount(u) ==
    "source=${localEnv:HOME}/.claude,target=/home/" \o u \o "/.claude,type=bind"

ClaudeJsonMount(u) ==
    "source=${localEnv:HOME}/.claude.json,target=/home/" \o u
        \o "/.claude.json,type=bind"

CredentialMounts ==
    {ClaudeDirMount(u) : u \in {"node", "vscode"}}
        \cup {ClaudeJsonMount(u) : u \in {"node", "vscode"}}

CliInstall == "npm install -g @anthropic-ai/claude-code"

Runs(r, cmd) ==
    \E i \in DOMAIN r : r[i].op = "RUN" /\ cmd \in Range(r[i].args)

\* C11: with claudeMode local the manifest holds both credential bind mounts
\* (the .claude directory and the .claude.json file, targeted at the home of
\* the runtime's user) and CLAUDE_CONFIG_DIR; with fresh or none it holds
\* none of the three; the recipe installs the assistant CLI for local and
\* for fresh.
C11_CredentialsOnlyLocal ==
    /\ "json" \in done =>
          IF config.claudeMode = "local"
          THEN /\ ClaudeDirMount(ExpectedUser) \in Range(manifest.mounts)
               /\ ClaudeJsonMount(ExpectedUser) \in Range(manifest.mounts)
               /\ "CLAUDE_CONFIG_DIR" \in DOMAIN manifest.containerEnv
               /\ manifest.containerEnv["CLAUDE_CONFIG_DIR"]
                      = "/home/" \o ExpectedUser \o "/.claude"
          ELSE /\ Range(manifest.mounts) \cap CredentialMounts = {}
               /\ "CLAUDE_CONFIG_DIR" \notin DOMAIN manifest.containerEnv
    /\ ("dockerfile" \in done /\ config.claudeMode \in {"local", "fresh"})
          => Runs(recipe, CliInstall)

C11_Witness ==
    /\ {"json", "dockerfile"} \subseteq done
    /\ config.claudeMode = "fresh"
    /\ config.runtime = "python"
    /\ Len(manifest.mounts) = 1
    /\ Runs(recipe, CliInstall)

\* C12: with enableFirewall the manifest's runArgs are exactly
\* --cap-add=NET_ADMIN, --cap-add=NET_RAW and the container-name argument,
\* in that order, and postCreateCommand invokes the firewall script; without
\* it runArgs hold only the name argument and there is no postCreateCommand
\* key; for every runtime and every claudeMode.
C12_FirewallRunArgs ==
    "json" \in done =>
        IF config.enableFirewall
        THEN /\ manifest.runArgs =
                    <<"--cap-add=NET_ADMIN", "--cap-add=NET_RAW",
                      "--name=${localWorkspaceFolderBasename}-devcontainer">>
             /\ "postCreateCommand" \in DOMAIN manifest
             /\ manifest.postCreateCommand = "sudo /usr/local/bin/init-firewall.sh"
        ELSE /\ manifest.runArgs =
                    <<"--name=${localWorkspaceFolderBasename}-devcontainer">>
             /\ "postCreateCommand" \notin DOMAIN manifest

C12_Witness ==
    /\ "json" \in done
    /\ config.enableFirewall
    /\ config.runtime = "node-bun"
    /\ Len(manifest.runArgs) = 3
    /\ "postCreateCommand" \in DOMAIN manifest

UserSwitches(r) == {i \in DOMAIN r : r[i].op = "USER"}

LastUser(r) ==
    LET last == CHOOSE i \in UserSwitches(r) :
                    \A j \in UserSwitches(r) : j <= i
    IN  r[last].args[1]

SudoersGrant(u) ==
    "echo \"" \o u \o " ALL=(root) NOPASSWD: /usr/local/bin/init-firewall.sh\" > /etc/sudoers.d/"
        \o u \o "-firewall"

\* C13: the user is the same in every artifact: the manifest's remoteUser,
\* the home directory in the credential mount targets and in
\* CLAUDE_CONFIG_DIR, the user the recipe switches to last and the user the
\* recipe's firewall block grants password-less elevation are all vscode for
\* python and node for both node variants.
C13_SameUserEverywhere ==
    /\ "json" \in done =>
          /\ manifest.remoteUser = ExpectedUser
          /\ config.claudeMode = "local" =>
                /\ manifest.mounts[2] = ClaudeDirMount(ExpectedUser)
                /\ manifest.mounts[3] = ClaudeJsonMount(ExpectedUser)
                /\ manifest.containerEnv["CLAUDE_CONFIG_DIR"]
                       = "/home/" \o ExpectedUser \o "/.claude"
    /\ "dockerfile" \in done =>
          /\ UserSwitches(recipe) # {}
          /\ LastUser(recipe) = ExpectedUser
          /\ \A u \in {"node", "vscode"} :
                Runs(recipe, SudoersGrant(u))
                    <=> (config.enableFirewall /\ u = ExpectedUser)
    /\ {"json", "dockerfile"} \subseteq done =>
          manifest.remoteUser = LastUser(recipe)

C13_Witness ==
    /\ {"json", "dockerfile"} \subseteq done
    /\ config.runtime = "python"
    /\ config.enableFirewall
    /\ config.claudeMode = "local"
    /\ manifest.remoteUser = "vscode"
    /\ Runs(recipe, SudoersGrant("vscode"))
FirewallUtilities == {"iptables", "ipset", "iproute2", "dnsutils", "aggregate"}

AptPackages(r) ==
    LET apt == CHOOSE i \in DOMAIN r :
                   "apt-get install -y --no-install-recommends" \in Range(r[i].args)
    IN  r[apt].pkgs

CopiesScript(r) ==
    \E i \in DOMAIN r : r[i].op = "COPY" /\ r[i].args[1] = "init-firewall.sh"

HasBootstrap(r) ==
    /\ CopiesScript(r)
    /\ Runs(r, "chmod +x /usr/local/bin/init-firewall.sh")
    /\ Runs(r, SudoersGrant(ExpectedUser))

RefersToScript(r) ==
    \/ CopiesScript(r)
    \/ Runs(r, "chmod +x /usr/local/bin/init-firewall.sh")
    \/ \E u \in {"node", "vscode"} : Runs(r, SudoersGrant(u))

\* C14: enableFirewall gates the three artifacts together: once
\* generateDevcontainer has finished, init-firewall.sh has been written
\* exactly when the written recipe holds the COPY/sudoers bootstrap block and
\* the firewall packages, and exactly when the written manifest has
\* postCreateCommand; when the script is not written neither artifact refers
\* to it.
C14_FirewallGatesAllThree ==
    wpc = "written" =>
        LET written == "init-firewall.sh" \in DOMAIN files
            json    == files["devcontainer.json"]
            docker  == files["Dockerfile"]
        IN  /\ written <=> config.enableFirewall
            /\ written <=> HasBootstrap(docker)
            /\ written <=> FirewallUtilities \subseteq Range(AptPackages(docker))
            /\ written <=> "postCreateCommand" \in DOMAIN json
            /\ ~written =>
                  /\ ~RefersToScript(docker)
                  /\ FirewallUtilities \cap Range(AptPackages(docker)) = {}
            /\ written => files["init-firewall.sh"] # <<>>

C14_Witness ==
    /\ wpc = "written"
    /\ config.enableFirewall
    /\ DOMAIN files = {"devcontainer.json", "Dockerfile", "init-firewall.sh"}
    /\ HasBootstrap(files["Dockerfile"])

\* The user in effect when instruction i of the recipe runs; the base images
\* start as root.
UserAt(r, i) ==
    LET before == {j \in UserSwitches(r) : j < i}
    IN  IF before = {} THEN "root"
        ELSE r[CHOOSE j \in before : \A k \in before : k <= j].args[1]

NodeRuntimeSetup == "curl -fsSL https://deb.nodesource.com/setup_20.x | bash -"

NodeRuntimeInstall == "apt-get install -y nodejs"

\* Commands that write outside the unprivileged user's own directories.
ElevatedCommands ==
    {"apt-get update",
     "apt-get install -y --no-install-recommends",
     "mkdir -p /usr/local/share/npm-global",
     "chown -R node:node /usr/local/share",
     "mkdir /commandhistory",
     "useradd -ms /bin/zsh $USERNAME",
     "echo \"$USERNAME ALL=(ALL) NOPASSWD:ALL\" >> /etc/sudoers",
     "mkdir -p /workspace /home/node/.claude",
     "mkdir -p /workspace /home/vscode/.claude",
     "chmod +x /usr/local/bin/init-firewall.sh",
     NodeRuntimeSetup,
     NodeRuntimeInstall}
    \cup {SudoersGrant(u) : u \in {"node", "vscode"}}

NeedsElevation(ins) ==
    ins.op = "RUN" /\ Range(ins.args) \cap ElevatedCommands # {}

RootSwitches(r) == {i \in UserSwitches(r) : r[i].args[1] = "root"}

\* C15: in the recipe every switch to root is followed by exactly one block
\* that needs elevation (the firewall bootstrap, or on python the node
\* runtime installation for the CLI) and then at once by the switch back to
\* the unprivileged user; no block that needs elevation runs as the
\* unprivileged user; the recipe ends with the unprivileged user current.
C15_RootBracketsOneBlock ==
    "dockerfile" \in done =>
        /\ \A i \in RootSwitches(recipe) :
              /\ i + 2 <= Len(recipe)
              /\ NeedsElevation(recipe[i + 1])
              /\ \/ Range(recipe[i + 1].args) \cap
                        {SudoersGrant(u) : u \in {"node", "vscode"}} # {}
                 \/ /\ config.runtime = "python"
                    /\ NodeRuntimeInstall \in Range(recipe[i + 1].args)
              /\ recipe[i + 2] = Instr("USER", <<ExpectedUser>>)
        /\ \A i \in DOMAIN recipe :
              NeedsElevation(recipe[i]) => UserAt(recipe, i) = "root"
        /\ UserAt(recipe, Len(recipe) + 1) = ExpectedUser

C15_Witness ==
    /\ "dockerfile" \in done
    /\ config.runtime = "python"
    /\ config.claudeMode = "local"
    /\ config.enableFirewall
    /\ Cardinality(RootSwitches(recipe)) = 2
    /\ UserAt(recipe, Len(recipe) + 1) = "vscode"
WellFormedConfigs ==
    {c \in Configs : c.runtimeVersion \in VersionsOf(c.runtime)}

BaseImage == IF config.runtime = "python" THEN "python" ELSE "node"

\* C16 as stated: generation is total, and no conditional branch of the
\* generators is unreachable for well-formed configurations; for the recipe
\* generator, each of its three ways out is taken by some well-formed
\* configuration.
C16_TotalAndEveryBranchReachable ==
    /\ "json" \in done => DOMAIN manifest # {}
    /\ "script" \in done => Len(script) > 0
    /\ "dockerfile" \in done =>
          /\ Len(recipe) > 0
          /\ recipe[1] = Instr("FROM", <<BaseImage \o ":" \o config.runtimeVersion>>)
          /\ \A b \in {"node", "python", "empty"} :
                \E c \in WellFormedConfigs : DockerfileBranch(c) = b

\* C16, amended: generation is total (each generator returns a non-empty
\* artifact, the recipe starting with FROM <image>:<version>), the node and
\* the python branch of the recipe generator are both taken, and its final
\* `return ""` is taken by no well-formed configuration.
C16_TotalExceptFallThrough ==
    /\ "json" \in done => DOMAIN manifest # {}
    /\ "script" \in done => Len(script) > 0
    /\ "dockerfile" \in done =>
          /\ Len(recipe) > 0
          /\ recipe[1] = Instr("FROM", <<BaseImage \o ":" \o config.runtimeVersion>>)
          /\ DockerfileBranch(config) # "empty"
          /\ \A b \in {"node", "python"} :
                \E c \in WellFormedConfigs : DockerfileBranch(c) = b
          /\ \A c \in WellFormedConfigs : DockerfileBranch(c) # "empty"

C16_Witness ==
    /\ {"json", "dockerfile", "script"} \subseteq done
    /\ config.runtime = "python"
    /\ DockerfileBranch(config) = "python"
    /\ recipe[1].args = <<"python:3.12">>
    /\ Len(script) > 0

\* C17: the manifest's name is ${localWorkspaceFolderBasename} for every
\* configuration, in every manifest generator of the repository: the module
\* generator and the one generateDevcontainer writes to devcontainer.json.
C17_NameIsPlaceholder ==
    /\ "json" \in done => manifest.name = "${localWorkspaceFolderBasename}"
    /\ "devcontainer.json" \in DOMAIN files =>
          files["devcontainer.json"].name = "${localWorkspaceFolderBasename}"
AliasCc ==
    "echo 'alias cc=\"claude --dangerously-skip-permissions\"' >> ~/.zshrc"

AliasCcc ==
    "echo 'alias ccc=\"claude --dangerously-skip-permissions -c\"' >> ~/.zshrc"

Position(seq, x) == CHOOSE k \in DOMAIN seq : seq[k] = x

\* C18: the recipe holds the assistant CLI's global package installation
\* and the two aliases cc and ccc exactly when claudeMode is not none; on
\* python the node runtime installation precedes the CLI installation in
\* the same elevated block; on the node branches no node runtime
\* installation is emitted.
C18_CliAndAliases ==
    "dockerfile" \in done =>
        /\ Runs(recipe, CliInstall) <=> config.claudeMode # "none"
        /\ Runs(recipe, AliasCc) <=> config.claudeMode # "none"
        /\ Runs(recipe, AliasCcc) <=> config.claudeMode # "none"
        /\ (config.runtime = "python" /\ config.claudeMode # "none") =>
              \E i \in DOMAIN recipe :
                  /\ recipe[i].op = "RUN"
                  /\ UserAt(recipe, i) = "root"
                  /\ {NodeRuntimeSetup, NodeRuntimeInstall, CliInstall}
                         \subseteq Range(recipe[i].args)
                  /\ Position(recipe[i].args, NodeRuntimeSetup)
                         < Position(recipe[i].args, NodeRuntimeInstall)
                  /\ Position(recipe[i].args, NodeRuntimeInstall)
                         < Position(recipe[i].args, CliInstall)
        /\ config.runtime # "python" =>
              /\ ~Runs(recipe, NodeRuntimeSetup)
              /\ ~Runs(recipe, NodeRuntimeInstall)

C18_Witness ==
    /\ "dockerfile" \in done
    /\ config.runtime = "python"
    /\ config.claudeMode = "fresh"
    /\ Runs(recipe, NodeRuntimeInstall)
    /\ Runs(recipe, AliasCcc)

\* What enableFirewall adds to the apt-get install list of the recipe.
AddedPackages ==
    LET with    == AptPackages(recipe)
        without == AptPackages(generateDockerfile(
                       [config EXCEPT !.enableFirewall = FALSE]))
    IN  SubSeq(with, Len(without) + 1, Len(with))

\* C19 as stated: the base package installation of the recipe gains four
\* packet-filter/DNS utility packages when enableFirewall is true and none
\* when it is false, in the node and the python branch alike.
C19_FourFirewallPackages ==
    "dockerfile" \in done =>
        Len(AddedPackages) = IF config.enableFirewall THEN 4 ELSE 0

\* C19, amended: the base package installation of the recipe gains five
\* packages (iptables, ipset, iproute2, dnsutils, aggregate) when
\* enableFirewall is true and none when it is false, in the node and the
\* python branch alike.
C19_FiveFirewallPackages ==
    "dockerfile" \in done =>
        /\ AddedPackages =
              IF config.enableFirewall
              THEN <<"iptables", "ipset", "iproute2", "dnsutils", "aggregate">>
              ELSE <<>>
        /\ ~config.enableFirewall =>
              Range(AptPackages(recipe)) \cap FirewallUtilities = {}

C19_Witness ==
    /\ "dockerfile" \in done
    /\ config.enableFirewall
    /\ config.runtime = "python"
    /\ Len(AptPackages(recipe)) = 19

RECURSIVE Quoted(_)
Quoted(ds) ==
    IF ds = <<>> THEN ""
    ELSE LET init == SubSeq(ds, 1, Len(ds) - 1)
         IN  (IF init = <<>> THEN "" ELSE Quoted(init) \o " ")
                 \o "\"" \o ds[Len(ds)] \o "\""

SameScriptInputs(c1, c2) ==
    /\ (c1.runtime = "python") = (c2.runtime = "python")
    /\ (c1.claudeMode = "none") = (c2.claudeMode = "none")

\* C20: for every configuration the firewall script holds each domain of
\* getFirewallDomains in double quotes, in the resolver's order, the lines
\* iptables -P INPUT DROP and iptables -P OUTPUT DROP, and the DNS, SSH and
\* loopback ACCEPT lines; two configurations of the same runtime family and
\* the same claudeMode-is-none flag produce the same script whatever their
\* other fields.
C20_ScriptContent ==
    "script" \in done =>
        /\ \E i \in DOMAIN script :
              script[i] = "for domain in "
                              \o Quoted(getFirewallDomains(config)) \o "; do"
        /\ {"iptables -P INPUT DROP",
            "iptables -P OUTPUT DROP",
            "iptables -A OUTPUT -p udp --dport 53 -j ACCEPT",
            "iptables -A INPUT -p udp --sport 53 -j ACCEPT",
            "iptables -A OUTPUT -p tcp --dport 22 -j ACCEPT",
            "iptables -A INPUT -p tcp --sport 22 -m state --state ESTABLISHED -j ACCEPT",
            "iptables -A INPUT -i lo -j ACCEPT",
            "iptables -A OUTPUT -o lo -j ACCEPT"} \subseteq Range(script)
        /\ done = {"script"} =>
              \A c \in WellFormedConfigs :
                  SameScriptInputs(config, c) => generateFirewallScript(c) = script

C20_Witness ==
    /\ done = {"script"}
    /\ config.runtime = "node-bun"
    /\ config.claudeMode = "local"
    /\ config.enableFirewall
    /\ "for domain in \"api.github.com\" \"github.com\" \"registry.npmjs.org\" \"api.anthropic.com\" \"sentry.io\" \"statsig.anthropic.com\" \"statsig.com\"; do"
           \in Range(script)
PnpmInstall == "npm install -g pnpm"

BunInstall == "curl -fsSL https://bun.sh/install | bash"

PythonTools == "pip install --user poetry black pylint pytest"

CreateUser == "useradd -ms /bin/zsh $USERNAME"

\* C21: the recipe installs exactly one package manager per runtime:
\* node-pnpm has the pnpm global install and no bun install, node-bun has
\* the bun install and no pnpm install, and python has neither but has the
\* four Python developer tools and the creation of the non-default user
\* account.
C21_OnePackageManager ==
    "dockerfile" \in done =>
        /\ Runs(recipe, PnpmInstall) <=> config.runtime = "node-pnpm"
        /\ Runs(recipe, BunInstall) <=> config.runtime = "node-bun"
        /\ Runs(recipe, PythonTools) <=> config.runtime = "python"
        /\ Runs(recipe, CreateUser) <=> config.runtime = "python"
        /\ Cardinality({i \in DOMAIN recipe :
              /\ recipe[i].op = "RUN"
              /\ Range(recipe[i].args) \cap {PnpmInstall, BunInstall} # {}})
                 = IF config.runtime = "python" THEN 0 ELSE 1

C21_Witness ==
    /\ "dockerfile" \in done
    /\ config.runtime = "node-bun"
    /\ Runs(recipe, BunInstall)
    /\ ~Runs(recipe, PnpmInstall)
----------------------------------------------------------------------------
(* Properties of the generators as callers see them *)

ConfigObjects == {refs[p] : p \in DOMAIN ConfigRefs}

\* Whatever the order of the calls so far, each artifact is the one its
\* generator returns for the configuration, and the objects changed in place
\* are not the configuration's.
OrderIndependent ==
    /\ "json" \in done =>
          /\ manifest = generateDevcontainerJson(config)
          /\ MutatedByManifest(refs) \cap ConfigObjects = {}
    /\ "dockerfile" \in done => recipe = generateDockerfile(config)
    /\ "script" \in done => script = generateFirewallScript(config)
    /\ "domains" \in done => domains = getFirewallDomains(config)

\* C22: the generators can be invoked on the same configuration value in
\* any order or interleaving: every order yields the same artifacts, no
\* generator modifies the configuration, and no artifact shares mutable
\* state with the configuration or with another artifact (no two fields hold
\* the same array or object).
C22_IndependentArtifacts ==
    /\ OrderIndependent
    /\ \A p, q \in DOMAIN refs : p # q => refs[p] # refs[q]
----------------------------------------------------------------------------
(* Properties of the wizard *)

\* C23: the wizard hands the generators a valid configuration: for every
\* text entered at the ports prompt, the ports of the resulting
\* configuration are an ordered sequence of positive integers.
C23_PortsPositive ==
    wz.pc \in {"generate", "finished"} =>
        /\ DOMAIN config.ports = 1..Len(config.ports)
        /\ \A i \in DOMAIN config.ports :
              config.ports[i] \in Int /\ config.ports[i] > 0

\* C24: the wizard writes no artifact without consent: when the target
\* directory does not exist and the user declines to create it, or when a
\* .devcontainer directory exists and the user declines to overwrite it, the
\* run ends with exit status 1, no directory has been created, and none of
\* devcontainer.json, Dockerfile and init-firewall.sh has been written.
C24_NoWriteAfterDecline ==
    /\ wz.declined # "none" =>
          /\ wz.pc = "exited"
          /\ wz.exit = 1
          /\ wz.made = {}
          /\ wpc = "wizard"
          /\ files = IF wz.devcontainer THEN PreviousFiles ELSE <<>>
    /\ wz.pc = "exited" => wz.declined # "none"
    /\ wz.exit = 1 => wz.pc = "exited"

C24_Witness ==
    /\ wz.declined = "overwrite"
    /\ wz.pc = "exited"
    /\ wz.exit = 1
    /\ wz.devcontainer
    /\ files = PreviousFiles
\* C25: the generators inlined in index.ts are equivalent to the generator
\* modules: for every configuration the Dockerfile and init-firewall.sh that
\* generateDevcontainer writes are the texts the modules return, and the
\* devcontainer.json it writes is the document the manifest module returns.
C25_InlinedEquivalent ==
    /\ ("dockerfile" \in done /\ "Dockerfile" \in DOMAIN files) =>
          files["Dockerfile"] = recipe
    /\ ("script" \in done /\ "init-firewall.sh" \in DOMAIN files) =>
          files["init-firewall.sh"] = script
    /\ ("json" \in done /\ "devcontainer.json" \in DOMAIN files) =>
          files["devcontainer.json"] = manifest

\* The two texts agree; the document does not.
InlinedTextsEquivalent ==
    /\ ("dockerfile" \in done /\ "Dockerfile" \in DOMAIN files) =>
          files["Dockerfile"] = recipe
    /\ ("script" \in done /\ "init-firewall.sh" \in DOMAIN files) =>
          files["init-firewall.sh"] = script
    /\ IndexDomains(config) = getFirewallDomains(config)
====
